---------------------------- MODULE Spec2Model ----------------------------
(***************************************************************************)
(* Model of scripts/test-coverage-analysis.py: the TestCoverageAnalyzer    *)
(* class and main().                                                       *)
(*                                                                         *)
(* Conventions                                                             *)
(*  - A class name is a sequence of one-character strings, so that         *)
(*    str.replace works on characters as it does in Python.                *)
(*  - A percentage (a float rounded to two decimals by round(x, 2)) is an  *)
(*    integer number of hundredths: 50.0 is 5000.                          *)
(*  - The text of a Java file is represented by what the two regex         *)
(*    extractors and the non-blank line count return on it.                *)
(*  - datetime.now() timestamps and the stdout/stderr text of the external *)
(*    process are left out or are opaque tokens: no operation reads them.  *)
(***************************************************************************)
EXTENDS Integers, Sequences, FiniteSets, TLC

VARIABLES
    fs,            \* the directory tree under project_root, as main() finds it
    pc,            \* position of main() / generate_comprehensive_report()
    svc_idx,       \* which of the two services generate_comprehensive_report is at
    results_dir,   \* TRUE once results_dir.mkdir() has succeeded
    report,        \* the report dict under construction
    gradle_calls,  \* per service, what each subprocess.run invocation did
    saved,         \* TRUE once save_report has written the JSON document
    console,       \* what main() has printed, in order
    exit_status,   \* {} while running, {n} once the process has exited with n
    arg,           \* unit specifications: the arguments of the function applied
    ret            \* unit specifications: its return value

vars == <<fs, pc, svc_idx, results_dir, report, gradle_calls, saved, console,
          exit_status, arg, ret>>

runVars == <<fs, svc_idx, results_dir, report, gradle_calls, saved, console,
             exit_status>>

-----------------------------------------------------------------------------
(* Bounds of the model *)

MaxTreeFiles == 2
MaxReturnCode == 1
MaxSourceFiles == 2
MaxClasses == 2
MaxTestFiles == 1
MaxTestClasses == 1
MaxMethods == 10
MaxMissing == 2
MaxSourceCount == 6
MaxTestCount == 3

-----------------------------------------------------------------------------
(* Strings *)

\* The class names the inputs are drawn from, and the literals of the code.
Test == <<"T", "e", "s", "t">>
Tests == <<"T", "e", "s", "t", "s">>
DotJava == <<".", "j", "a", "v", "a">>
Bar == <<"B", "a", "r">>
Helper == <<"H", "e", "l", "p", "e", "r">>
BarTest == Bar \o Test
BarTests == Bar \o Tests
TestHelper == Test \o Helper

StartsWith(s, p) == Len(s) >= Len(p) /\ SubSeq(s, 1, Len(p)) = p

EndsWith(s, p) == Len(s) >= Len(p) /\ SubSeq(s, Len(s) - Len(p) + 1, Len(s)) = p

\* Python's s.replace(old, new) for a non-empty old: every non-overlapping
\* occurrence, found left to right, is replaced.
RECURSIVE replace(_, _, _)
replace(s, old, new) ==
    IF Len(s) < Len(old) THEN s
    ELSE IF StartsWith(s, old)
         THEN new \o replace(SubSeq(s, Len(old) + 1, Len(s)), old, new)
         ELSE <<Head(s)>> \o replace(Tail(s), old, new)

RECURSIVE SumSeq(_)
SumSeq(s) == IF s = <<>> THEN 0 ELSE Head(s) + SumSeq(Tail(s))

RECURSIVE Flatten(_)
Flatten(ss) == IF ss = <<>> THEN <<>> ELSE Head(ss) \o Flatten(Tail(ss))

Range(s) == {s[i] : i \in DOMAIN s}

\* the injective sequences over S of length at most n
SeqsUpTo(S, n) == UNION {[1..k -> S] : k \in 0..n}

Injective(s) == \A i, j \in DOMAIN s : s[i] = s[j] => i = j

-----------------------------------------------------------------------------
(* Arithmetic *)

\* A raised ZeroDivisionError, as a value no percentage can take.
ZeroDivisionError == 0 - 1

\* round(num / den * 100, 2) in hundredths: round-half-to-even of
\* num * 10000 / den.
round2(num, den) ==
    LET n == num * 10000
        q == n \div den
        r == n % den
    IN
    IF 2 * r < den THEN q
    ELSE IF 2 * r > den THEN q + 1
    ELSE IF q % 2 = 0 THEN q ELSE q + 1

\* num / den * 100 rounded to two decimals; Python raises on den = 0.
percent(num, den) == IF den = 0 THEN ZeroDivisionError ELSE round2(num, den)

-----------------------------------------------------------------------------
(* TestCoverageAnalyzer: the analysis functions *)

\* The two services, in the order generate_comprehensive_report takes them.
Services == <<"data-preprocessor", "model-trainer">>

\* One file of a tree: the summary built for it.  On a failed read the
\* summary keeps its initial values; it is appended in both cases.
file_info(java_file) ==
    IF java_file.readable
    THEN [path |-> java_file.path,
          classes |-> java_file.classes,
          methods |-> java_file.methods,
          lines_of_code |-> java_file.nonblank]
    ELSE [path |-> java_file.path,
          classes |-> <<>>,
          methods |-> <<>>,
          lines_of_code |-> 0]

\* a scan that appends a summary only after a successful read
find_java_files_skipping(files) ==
    LET read == SelectSeq(files, LAMBDA f : f.readable)
    IN  [i \in DOMAIN read |-> file_info(read[i])]

\* files: the *.java files under the path, in the order rglob yields them.
find_java_files(files) == [i \in DOMAIN files |-> file_info(files[i])]

file_coverage(total_test_files, total_source_files) ==
    IF total_source_files > 0
    THEN percent(total_test_files, total_source_files) ELSE 0

class_coverage(total_test_classes, total_source_classes) ==
    IF total_source_classes > 0
    THEN percent(total_test_classes, total_source_classes) ELSE 0

\* the ratio computed without the guard on its denominator
test_to_source_ratio_unguarded(total_test_loc, total_source_loc) ==
    percent(total_test_loc, total_source_loc)

test_to_source_ratio(total_test_loc, total_source_loc) ==
    IF total_source_loc > 0
    THEN percent(total_test_loc, total_source_loc) ELSE 0

calculate_coverage_metrics(source_files, test_files) ==
    LET total_source_files == Len(source_files)
        total_test_files == Len(test_files)
        total_source_classes ==
            SumSeq([i \in DOMAIN source_files |-> Len(source_files[i].classes)])
        total_source_methods ==
            SumSeq([i \in DOMAIN source_files |-> Len(source_files[i].methods)])
        total_source_loc ==
            SumSeq([i \in DOMAIN source_files |-> source_files[i].lines_of_code])
        total_test_classes ==
            SumSeq([i \in DOMAIN test_files |-> Len(test_files[i].classes)])
        total_test_methods ==
            SumSeq([i \in DOMAIN test_files |-> Len(test_files[i].methods)])
        total_test_loc ==
            SumSeq([i \in DOMAIN test_files |-> test_files[i].lines_of_code])
    IN
    [total_source_files |-> total_source_files,
     total_test_files |-> total_test_files,
     total_source_classes |-> total_source_classes,
     total_test_classes |-> total_test_classes,
     total_source_methods |-> total_source_methods,
     total_test_methods |-> total_test_methods,
     total_source_loc |-> total_source_loc,
     total_test_loc |-> total_test_loc,
     estimated_file_coverage |->
         file_coverage(total_test_files, total_source_files),
     estimated_class_coverage |->
         class_coverage(total_test_classes, total_source_classes),
     test_to_source_ratio |->
         test_to_source_ratio(total_test_loc, total_source_loc)]

\* class_name.replace("Test", "").replace("Tests", "")
covered_name(class_name) == replace(replace(class_name, Test, <<>>), Tests, <<>>)

\* the set test_classes built by the first loop of _find_missing_tests
test_classes(test_files) ==
    {covered_name(c) : c \in Range(Flatten([i \in DOMAIN test_files |->
                                                test_files[i].classes]))}

missing_entry(class_name, source_file) ==
    [source_class |-> class_name,
     source_file |-> source_file.path,
     suggested_test_file |-> class_name \o Test \o DotJava]

RECURSIVE FirstOccurrences(_)
FirstOccurrences(s) ==
    IF s = <<>> THEN <<>>
    ELSE <<Head(s)>> \o FirstOccurrences(SelectSeq(Tail(s), LAMBDA x : x # Head(s)))

\* a second loop that reports each name of a file once
missing_of_file_once(source_file, covered) ==
    LET uncovered == SelectSeq(FirstOccurrences(source_file.classes),
                               LAMBDA c : c \notin covered)
    IN  [i \in DOMAIN uncovered |-> missing_entry(uncovered[i], source_file)]

\* the entries the second loop appends for one source file
missing_of_file(source_file, covered) ==
    LET uncovered == SelectSeq(source_file.classes, LAMBDA c : c \notin covered)
    IN  [i \in DOMAIN uncovered |-> missing_entry(uncovered[i], source_file)]

find_missing_tests(source_files, test_files) ==
    LET covered == test_classes(test_files)
    IN  Flatten([i \in DOMAIN source_files |->
                    missing_of_file(source_files[i], covered)])

\* The four messages; the third carries the number of missing tests.
LowFileCoverage == [msg |-> "low file coverage", n |-> 0]
LowLineRatio == [msg |-> "low test code volume", n |-> 0]
MissingTests(n) == [msg |-> "classes missing tests", n |-> n]
FewTestMethods == [msg |-> "few test methods", n |-> 0]

\* the first two thresholds taken inclusively
generate_recommendations_inclusive(coverage_data) ==
    LET metrics == coverage_data.coverage_metrics
        r1 == IF metrics.estimated_file_coverage <= 50 * 100
              THEN <<LowFileCoverage>> ELSE <<>>
        r2 == IF metrics.test_to_source_ratio <= 30 * 100
              THEN <<LowLineRatio>> ELSE <<>>
        r3 == IF Len(coverage_data.missing_tests) > 0
              THEN <<MissingTests(Len(coverage_data.missing_tests))>> ELSE <<>>
        r4 == IF 2 * metrics.total_test_methods < metrics.total_source_methods
              THEN <<FewTestMethods>> ELSE <<>>
    IN  r1 \o r2 \o r3 \o r4

generate_recommendations(coverage_data) ==
    LET metrics == coverage_data.coverage_metrics
        r1 == IF metrics.estimated_file_coverage < 50 * 100
              THEN <<LowFileCoverage>> ELSE <<>>
        r2 == IF metrics.test_to_source_ratio < 30 * 100
              THEN <<LowLineRatio>> ELSE <<>>
        r3 == IF Len(coverage_data.missing_tests) > 0
              THEN <<MissingTests(Len(coverage_data.missing_tests))>> ELSE <<>>
        \* total_test_methods < total_source_methods * 0.5
        r4 == IF 2 * metrics.total_test_methods < metrics.total_source_methods
              THEN <<FewTestMethods>> ELSE <<>>
    IN  r1 \o r2 \o r3 \o r4

\* service_dir: [exists, main, test], each tree [exists, files].
analyze_service_coverage(service_dir, service_name) ==
    LET source_files == IF service_dir.main.exists
                        THEN find_java_files(service_dir.main.files) ELSE <<>>
        test_files == IF service_dir.test.exists
                      THEN find_java_files(service_dir.test.files) ELSE <<>>
        coverage_metrics == calculate_coverage_metrics(source_files, test_files)
        missing_tests == find_missing_tests(source_files, test_files)
        data == [coverage_metrics |-> coverage_metrics,
                 missing_tests |-> missing_tests]
    IN  [service_name |-> service_name,
         source_files |-> source_files,
         test_files |-> test_files,
         coverage_metrics |-> coverage_metrics,
         missing_tests |-> missing_tests,
         recommendations |-> generate_recommendations(data)]

\* What subprocess.run can do: complete with a return code, exceed the
\* timeout, or fail to launch (any other Exception).
GradleOutcomes ==
    [kind : {"completed"}, returncode : 0..MaxReturnCode]
    \cup [kind : {"TimeoutExpired", "Exception"}, returncode : {0}]

TimeoutMarker == "test execution timed out"

\* without the except clause for TimeoutExpired, the general clause takes it
run_gradle_test_report_general_clause(outcome) ==
    IF outcome.kind = "completed"
    THEN [success |-> outcome.returncode = 0,
          stdout |-> "stdout",
          stderr |-> "stderr",
          return_code |-> outcome.returncode]
    ELSE [success |-> FALSE,
          error |-> "str(e)",
          return_code |-> 0 - 1]

run_gradle_test_report(outcome) ==
    CASE outcome.kind = "completed" ->
             [success |-> outcome.returncode = 0,
              stdout |-> "stdout",
              stderr |-> "stderr",
              return_code |-> outcome.returncode]
      [] outcome.kind = "TimeoutExpired" ->
             [success |-> FALSE,
              error |-> TimeoutMarker,
              return_code |-> 0 - 1]
      [] outcome.kind = "Exception" ->
             [success |-> FALSE,
              error |-> "str(e)",
              return_code |-> 0 - 1]

\* The loop over services.values(); services is a function from the names
\* analysed to their records.
sum_totals(services) ==
    LET names == DOMAIN services
        order == CHOOSE s \in [1..Cardinality(names) -> names] : Range(s) = names
    IN
    [total_source_files |->
         SumSeq([i \in DOMAIN order |->
                    services[order[i]].coverage_metrics.total_source_files]),
     total_test_files |->
         SumSeq([i \in DOMAIN order |->
                    services[order[i]].coverage_metrics.total_test_files]),
     total_missing_tests |->
         SumSeq([i \in DOMAIN order |-> Len(services[order[i]].missing_tests)]),
     all_recommendations |->
         Flatten([i \in DOMAIN order |-> services[order[i]].recommendations])]

overall_file_coverage(total_test_files, total_source_files) ==
    IF total_source_files > 0
    THEN percent(total_test_files, total_source_files) ELSE 0

\* the overall coverage taken as the mean of the services' own percentages
calculate_overall_statistics_mean(services) ==
    LET t == sum_totals(services)
        names == DOMAIN services
        order == CHOOSE s \in [1..Cardinality(names) -> names] : Range(s) = names
        own == [i \in DOMAIN order |->
                   file_coverage(services[order[i]].coverage_metrics.total_test_files,
                                 services[order[i]].coverage_metrics.total_source_files)]
    IN
    [total_services |-> Cardinality(DOMAIN services),
     total_source_files |-> t.total_source_files,
     total_test_files |-> t.total_test_files,
     total_missing_tests |-> t.total_missing_tests,
     overall_file_coverage |->
         IF names = {} THEN 0 ELSE SumSeq(own) \div Cardinality(names),
     unique_recommendations |-> Range(t.all_recommendations)]

calculate_overall_statistics(services) ==
    LET t == sum_totals(services)
    IN
    [total_services |-> Cardinality(DOMAIN services),
     total_source_files |-> t.total_source_files,
     total_test_files |-> t.total_test_files,
     total_missing_tests |-> t.total_missing_tests,
     overall_file_coverage |->
         overall_file_coverage(t.total_test_files, t.total_source_files),
     unique_recommendations |-> Range(t.all_recommendations)]

-----------------------------------------------------------------------------
(* The directory tree main() is run on *)

BarJava ==
    [path |-> "Bar.java", readable |-> TRUE, classes |-> <<Bar>>,
     methods |-> <<"run", "stop", "reset">>, nonblank |-> 9]

\* a file that exists and whose read raises
LockedJava ==
    [path |-> "Locked.java", readable |-> FALSE, classes |-> <<Helper>>,
     methods |-> <<"help">>, nonblank |-> 4]

BarTestJava ==
    [path |-> "BarTest.java", readable |-> TRUE, classes |-> <<BarTest>>,
     methods |-> <<"testRun">>, nonblank |-> 3]

NoTree == [exists |-> FALSE, files |-> <<>>]

\* a directory that is absent, or holds at most MaxTreeFiles of the files
Trees(catalogue) ==
    {NoTree} \cup
    {[exists |-> TRUE, files |-> f] :
        f \in {q \in SeqsUpTo(catalogue, MaxTreeFiles) : Injective(q)}}

NoService == [exists |-> FALSE, main |-> NoTree, test |-> NoTree]

ServiceDirs ==
    {NoService} \cup
    [exists : {TRUE},
     main : Trees({BarJava, LockedJava}),
     test : Trees({BarTestJava})]

\* project_root is absent (and so is everything under it), or it exists.
FileSystems ==
    {[root |-> FALSE, services |-> [n \in Range(Services) |-> NoService]]} \cup
    [root : {TRUE}, services : [Range(Services) -> ServiceDirs]]

-----------------------------------------------------------------------------
(* main() *)

UnitIdle == arg = <<>> /\ ret = <<>>

Init ==
    /\ fs \in FileSystems
    /\ pc = "main"
    /\ svc_idx = 1
    /\ results_dir = FALSE
    /\ report = <<>>
    /\ gradle_calls = [n \in Range(Services) |-> <<>>]
    /\ saved = FALSE
    /\ console = <<>>
    /\ exit_status = {}
    /\ UnitIdle

\* TestCoverageAnalyzer(project_root): results_dir.mkdir(exist_ok=True)
\* creates one directory level, so it needs project_root to exist.
mkdir_ok(filesystem) == filesystem.root

\* The constructor call of main(), which is outside the try block: an
\* exception of mkdir is uncaught, the interpreter prints the traceback and
\* the process exits with status 1.
Construct ==
    /\ pc = "main"
    /\ IF mkdir_ok(fs)
       THEN /\ results_dir' = TRUE
            /\ pc' = "constructed"
            /\ UNCHANGED <<console, exit_status>>
       ELSE /\ pc' = "exited"
            /\ console' = Append(console, "traceback")
            /\ exit_status' = {1}
            /\ UNCHANGED results_dir
    /\ UNCHANGED <<fs, svc_idx, report, gradle_calls, saved, arg, ret>>

\* generate_comprehensive_report: the report dict is created
BeginReport ==
    /\ pc = "constructed"
    /\ report' = [services |-> <<>>]
    /\ svc_idx' = 1
    /\ pc' = "service"
    /\ UNCHANGED <<fs, results_dir, gradle_calls, saved, console, exit_status,
                   arg, ret>>

\* if <service path>.exists(): the record of the service is stored
AnalyzeService ==
    /\ pc = "service"
    /\ svc_idx <= Len(Services)
    /\ LET name == Services[svc_idx] IN
       /\ fs.services[name].exists
       /\ report' = [report EXCEPT !.services =
                        (name :> analyze_service_coverage(fs.services[name], name))
                        @@ @]
    /\ pc' = "gradle"
    /\ UNCHANGED <<fs, svc_idx, results_dir, gradle_calls, saved, console,
                   exit_status, arg, ret>>

\* the service path does not exist: the service is passed over
SkipService ==
    /\ pc = "service"
    /\ svc_idx <= Len(Services)
    /\ ~fs.services[Services[svc_idx]].exists
    /\ svc_idx' = svc_idx + 1
    /\ UNCHANGED <<fs, pc, results_dir, report, gradle_calls, saved, console,
                   exit_status, arg, ret>>

\* a runner whose launch failure is not caught: it reaches the handler of
\* main(), which prints the failure and exits with status 1
RunGradleUncaught(outcome) ==
    /\ pc = "gradle"
    /\ LET name == Services[svc_idx] IN
       /\ gradle_calls' = [gradle_calls EXCEPT ![name] = Append(@, outcome)]
       /\ IF outcome.kind = "Exception"
          THEN /\ console' = Append(console, "failed")
               /\ exit_status' = {1}
               /\ pc' = "exited"
               /\ UNCHANGED <<report, svc_idx>>
          ELSE /\ report' = [report EXCEPT !.services[name] =
                                [gradle_test_result |-> run_gradle_test_report(outcome)]
                                @@ @]
               /\ svc_idx' = svc_idx + 1
               /\ pc' = "service"
               /\ UNCHANGED <<console, exit_status>>
    /\ UNCHANGED <<fs, results_dir, saved, arg, ret>>

\* gradle_result = run_gradle_test_report(path); the result is stored on the
\* record of the service
RunGradle(outcome) ==
    /\ pc = "gradle"
    /\ LET name == Services[svc_idx] IN
       /\ gradle_calls' = [gradle_calls EXCEPT ![name] = Append(@, outcome)]
       /\ report' = [report EXCEPT !.services[name] =
                        [gradle_test_result |-> run_gradle_test_report(outcome)]
                        @@ @]
    /\ svc_idx' = svc_idx + 1
    /\ pc' = "service"
    /\ UNCHANGED <<fs, results_dir, saved, console, exit_status, arg, ret>>

\* report["overall_statistics"] = ...; generate_comprehensive_report returns
Aggregate ==
    /\ pc = "service"
    /\ svc_idx > Len(Services)
    /\ report' = [overall_statistics |->
                     calculate_overall_statistics(report.services)] @@ report
    /\ pc' = "save"
    /\ UNCHANGED <<fs, svc_idx, results_dir, gradle_calls, saved, console,
                   exit_status, arg, ret>>

\* a handler that prints the failure and lets main() go on
SaveReportSwallowed(ok) ==
    /\ pc = "save"
    /\ saved' = ok
    /\ console' = Append(console, IF ok THEN "saved" ELSE "failed")
    /\ pc' = "summary"
    /\ UNCHANGED <<fs, svc_idx, results_dir, report, gradle_calls, exit_status,
                   arg, ret>>

\* save_report: open() or json.dump() either succeeds, or raises; main()
\* catches the exception, prints the failure and calls sys.exit(1).
SaveReport(ok) ==
    /\ pc = "save"
    /\ IF ok
       THEN /\ saved' = TRUE
            /\ console' = Append(console, "saved")
            /\ pc' = "summary"
            /\ UNCHANGED exit_status
       ELSE /\ console' = Append(console, "failed")
            /\ exit_status' = {1}
            /\ pc' = "exited"
            /\ UNCHANGED saved
    /\ UNCHANGED <<fs, svc_idx, results_dir, report, gradle_calls, arg, ret>>

PrintSummary ==
    /\ pc = "summary"
    /\ console' = Append(console, "summary")
    /\ pc' = "finish"
    /\ UNCHANGED <<fs, svc_idx, results_dir, report, gradle_calls, saved,
                   exit_status, arg, ret>>

\* the success message is printed and main() returns: exit status 0
Finish ==
    /\ pc = "finish"
    /\ console' = Append(console, "success")
    /\ exit_status' = {0}
    /\ pc' = "exited"
    /\ UNCHANGED <<fs, svc_idx, results_dir, report, gradle_calls, saved,
                   arg, ret>>

Next ==
    \/ Construct
    \/ BeginReport
    \/ AnalyzeService
    \/ SkipService
    \/ \E outcome \in GradleOutcomes : RunGradle(outcome)
    \/ Aggregate
    \/ \E ok \in BOOLEAN : SaveReport(ok)
    \/ PrintSummary
    \/ Finish

Spec == Init /\ [][Next]_vars

FairSpec == Spec /\ WF_vars(Next)

-----------------------------------------------------------------------------
(* Claims about the run of main() *)

Generated == "overall_statistics" \in DOMAIN report

\* the records stored in the report so far
Records == IF "services" \in DOMAIN report THEN report.services ELSE <<>>

ExistingServices == {n \in Range(Services) : fs.services[n].exists}

\* the files of a tree of a service, as they lie on disk
DiskFiles(n, tree) ==
    IF tree = "main" THEN fs.services[n].main.files ELSE fs.services[n].test.files

\* C2: run on a project root that does not exist, the program does not
\* crash: it ends with status 0 and a well-formed report of zero services,
\* zero files, zero missing tests and zero recommendations.
C2_MissingRootEmptyReport ==
    (~fs.root /\ pc = "exited") =>
        /\ exit_status = {0}
        /\ "traceback" \notin Range(console)
        /\ results_dir
        /\ Generated
        /\ report.services = <<>>
        /\ report.overall_statistics.total_services = 0
        /\ report.overall_statistics.total_source_files = 0
        /\ report.overall_statistics.total_test_files = 0
        /\ report.overall_statistics.total_missing_tests = 0
        /\ report.overall_statistics.unique_recommendations = {}

EmptySummary(f) ==
    [path |-> f.path, classes |-> <<>>, methods |-> <<>>, lines_of_code |-> 0]

FullSummary(f) ==
    [path |-> f.path, classes |-> f.classes, methods |-> f.methods,
     lines_of_code |-> f.nonblank]

\* the summaries a record holds for one tree
Summaries(n, tree) ==
    IF tree = "main" THEN Records[n].source_files
    ELSE Records[n].test_files

\* C3 as amended: a file whose read fails is still returned, with no
\* classes, no methods and a line count of 0, and is counted in
\* total_source_files / total_test_files; every other file is scanned and
\* returned with its content, in discovery order.
C3_UnreadableFileKeptEmpty ==
    \A n \in DOMAIN Records : \A tree \in {"main", "test"} :
        LET files == DiskFiles(n, tree)
            got == Summaries(n, tree)
            m == Records[n].coverage_metrics
        IN  /\ Len(got) = Len(files)
            /\ \A i \in DOMAIN files :
                   got[i] = IF files[i].readable THEN FullSummary(files[i])
                            ELSE EmptySummary(files[i])
            /\ tree = "main" => m.total_source_files = Len(files)
            /\ tree = "test" => m.total_test_files = Len(files)

\* a scan that met an unreadable file and, after it, a readable one
C3_Witness ==
    \E n \in DOMAIN Records :
        /\ fs.services[n].main.files = <<LockedJava, BarJava>>
        /\ Len(Records[n].source_files) = 2
        /\ Records[n].source_files[2].classes = <<Bar>>

\* C3 as stated: a file whose read fails does not appear in the returned
\* sequence, and is not counted.
C3_UnreadableFileSkipped ==
    \A n \in DOMAIN Records : \A tree \in {"main", "test"} :
        LET files == DiskFiles(n, tree)
            readable == SelectSeq(files, LAMBDA f : f.readable)
            got == Summaries(n, tree)
        IN  /\ Len(got) = Len(readable)
            /\ \A i \in DOMAIN got : got[i].path = readable[i].path

\* C4: a percentage whose denominator is 0 is 0, in the metrics of every
\* service and in the overall statistics, and no division by zero is
\* reached.
C4_ZeroDenominatorGivesZero ==
    /\ \A n \in DOMAIN Records :
           LET m == Records[n].coverage_metrics IN
           /\ m.total_source_files = 0 => m.estimated_file_coverage = 0
           /\ m.total_source_classes = 0 => m.estimated_class_coverage = 0
           /\ m.total_source_loc = 0 => m.test_to_source_ratio = 0
           /\ ZeroDivisionError \notin {m.estimated_file_coverage,
                                        m.estimated_class_coverage,
                                        m.test_to_source_ratio}
    /\ Generated =>
           LET o == report.overall_statistics IN
           /\ o.total_source_files = 0 => o.overall_file_coverage = 0
           /\ o.overall_file_coverage # ZeroDivisionError

\* a service with test files, test classes and test lines over no source
\* file, and overall statistics over no source file
C4_Witness ==
    /\ Generated
    /\ report.overall_statistics.total_source_files = 0
    /\ report.overall_statistics.total_test_files > 0
    /\ \E n \in DOMAIN Records :
           LET m == Records[n].coverage_metrics IN
           /\ m.total_source_files = 0 /\ m.total_test_files > 0
           /\ m.total_source_classes = 0 /\ m.total_test_classes > 0
           /\ m.total_source_loc = 0 /\ m.total_test_loc > 0

RECURSIVE SumOver(_, _)
SumOver(S, f) ==
    IF S = {} THEN 0
    ELSE LET x == CHOOSE y \in S : TRUE IN f[x] + SumOver(S \ {x}, f)

\* C5: the external test runner is invoked at most once per service,
\* whatever it did; and once the constructor has succeeded the run ends
\* only after report generation, with a record for every service whose
\* directory exists and with every such service counted in the totals,
\* whatever the runner did for either service.
C5_RunnerOncePerServiceAndIsolated ==
    /\ \A n \in Range(Services) : Len(gradle_calls[n]) <= 1
    /\ (pc = "exited" /\ fs.root) =>
           /\ Generated
           /\ DOMAIN Records = ExistingServices
           /\ \A n \in ExistingServices : Len(gradle_calls[n]) = 1
           /\ report.overall_statistics.total_services =
                  Cardinality(ExistingServices)
           /\ report.overall_statistics.total_source_files =
                  SumOver(ExistingServices,
                          [n \in ExistingServices |->
                              Len(fs.services[n].main.files)])
           /\ report.overall_statistics.total_test_files =
                  SumOver(ExistingServices,
                          [n \in ExistingServices |->
                              Len(fs.services[n].test.files)])

\* the runner failed for the first service (timeout) and for the second
\* (launch failure), and both are in the finished report
C5_Witness ==
    /\ pc = "exited"
    /\ Generated
    /\ DOMAIN Records = Range(Services)
    /\ gradle_calls[Services[1]] = <<[kind |-> "TimeoutExpired", returncode |-> 0]>>
    /\ gradle_calls[Services[2]] = <<[kind |-> "Exception", returncode |-> 0]>>
    /\ report.overall_statistics.total_source_files = 4

\* C9: run_gradle_test_report does not raise: a timeout gives success =
\* false with the timeout marker, any other launch failure success = false
\* with an error string, a completed process success exactly when the exit
\* code is 0; the result is stored on the record of the service and report
\* generation goes on.
C9_RunnerResultStored ==
    \A n \in Range(Services) :
        gradle_calls[n] # <<>> =>
            /\ n \in DOMAIN Records
            /\ "gradle_test_result" \in DOMAIN Records[n]
            /\ LET r == Records[n].gradle_test_result
                   o == gradle_calls[n][Len(gradle_calls[n])]
               IN  /\ o.kind = "TimeoutExpired" =>
                          /\ r.success = FALSE
                          /\ "error" \in DOMAIN r
                          /\ r.error = TimeoutMarker
                   /\ o.kind = "Exception" =>
                          /\ r.success = FALSE
                          /\ "error" \in DOMAIN r
                          /\ r.error # TimeoutMarker
                   /\ o.kind = "completed" =>
                          /\ r.success = (o.returncode = 0)
                          /\ r.return_code = o.returncode
            /\ pc = "exited" => Generated
            /\ pc = "service" => svc_idx > 1

\* a timeout for the first service, then the second service analysed
C9_Witness ==
    /\ gradle_calls[Services[1]] = <<[kind |-> "TimeoutExpired", returncode |-> 0]>>
    /\ Records[Services[1]].gradle_test_result.error = TimeoutMarker
    /\ pc = "gradle"
    /\ svc_idx = 2

C10_Exit ==
    /\ pc = "exited" <=> exit_status # {}
    /\ exit_status \in {{}, {0}, {1}}
    /\ exit_status = {1} =>
           /\ console # <<>>
           /\ console[Len(console)] \in {"failed", "traceback"}
           /\ "summary" \notin Range(console)
           /\ "success" \notin Range(console)
    /\ exit_status = {0} =>
           /\ Generated
           /\ saved
           /\ console = <<"saved", "summary", "success">>
    /\ "failed" \in Range(console) =>
           /\ exit_status = {1}
           /\ ~saved
    /\ "summary" \in Range(console) => saved /\ Generated
    /\ saved => Generated

\* C10: the run always terminates with a defined exit status: a top-level
\* failure (of the constructor, or of saving the report) surfaces an error
\* and ends with status 1 without summary or success message; a run without
\* failure generates the report, saves it, prints the summary, in that
\* order, and ends with status 0.
C10_TerminatesWithStatus == []C10_Exit /\ <>(pc = "exited")

\* saving the report failed
C10_Witness ==
    /\ pc = "exited"
    /\ exit_status = {1}
    /\ Generated
    /\ console = <<"failed">>

-----------------------------------------------------------------------------
(* The analysis functions applied to drawn arguments *)

RunIdle ==
    /\ fs = <<>>
    /\ svc_idx = 1
    /\ results_dir = FALSE
    /\ report = <<>>
    /\ gradle_calls = <<>>
    /\ saved = FALSE
    /\ console = <<>>
    /\ exit_status = {}

Paths == <<"A.java", "B.java", "C.java", "D.java">>

\* the sequences of at most nfiles file summaries, each declaring at most
\* nclasses of the names, one non-blank line per declaration
SummarySeqs(names, nfiles, nclasses) ==
    {[i \in DOMAIN cs |->
         [path |-> Paths[i], classes |-> cs[i], methods |-> <<>>,
          lines_of_code |-> Len(cs[i])]] :
        cs \in SeqsUpTo(SeqsUpTo(names, nclasses), nfiles)}

InitMissing ==
    /\ arg \in [source_files : SummarySeqs({Bar, Helper}, MaxSourceFiles, MaxClasses),
                test_files : SummarySeqs({BarTest, BarTests, TestHelper},
                                         MaxTestFiles, MaxTestClasses)]
    /\ ret = <<>>
    /\ pc = "call"
    /\ RunIdle

CallFindMissingTests ==
    /\ pc = "call"
    /\ ret' = find_missing_tests(arg.source_files, arg.test_files)
    /\ pc' = "return"
    /\ UNCHANGED <<arg, runVars>>

SpecMissing == InitMissing /\ [][CallFindMissingTests]_vars

\* the coverage_data dicts _generate_recommendations is applied to: the
\* fields it reads
CoverageData ==
    {[coverage_metrics |->
          [estimated_file_coverage |-> fc, test_to_source_ratio |-> lr,
           total_test_methods |-> tm, total_source_methods |-> sm],
      missing_tests |-> [i \in 1..k |-> missing_entry(Bar, [path |-> Paths[1]])]] :
        fc \in {0, 4000, 4999, 5000, 10000},
        lr \in {0, 2999, 3000, 6000, 10000},
        tm \in 0..MaxMethods, sm \in 0..MaxMethods, k \in 0..MaxMissing}

InitRecommend ==
    /\ arg \in CoverageData
    /\ ret = <<>>
    /\ pc = "call"
    /\ RunIdle

CallGenerateRecommendations ==
    /\ pc = "call"
    /\ ret' = generate_recommendations(arg)
    /\ pc' = "return"
    /\ UNCHANGED <<arg, runVars>>

SpecRecommend == InitRecommend /\ [][CallGenerateRecommendations]_vars

\* the service records _calculate_overall_statistics is applied to: the
\* fields it reads, with the recommendations the record's own file
\* coverage and missing tests give (the other two messages are free)
ServiceRecords ==
    {[coverage_metrics |->
          [total_source_files |-> sf, total_test_files |-> tf],
      missing_tests |-> [i \in 1..k |-> missing_entry(Bar, [path |-> Paths[1]])],
      recommendations |->
          (IF file_coverage(tf, sf) < 50 * 100
           THEN <<LowFileCoverage>> ELSE <<>>)
          \o (IF lo THEN <<LowLineRatio>> ELSE <<>>)
          \o (IF k > 0 THEN <<MissingTests(k)>> ELSE <<>>)
          \o (IF few THEN <<FewTestMethods>> ELSE <<>>)] :
        sf \in 0..MaxSourceCount, tf \in 0..MaxTestCount, k \in 0..MaxMissing,
        lo \in BOOLEAN, few \in BOOLEAN}

InitOverall ==
    /\ arg \in UNION {[names -> ServiceRecords] : names \in SUBSET Range(Services)}
    /\ ret = <<>>
    /\ pc = "call"
    /\ RunIdle

CallCalculateOverallStatistics ==
    /\ pc = "call"
    /\ ret' = calculate_overall_statistics(arg)
    /\ pc' = "return"
    /\ UNCHANGED <<arg, runVars>>

SpecOverall == InitOverall /\ [][CallCalculateOverallStatistics]_vars

-----------------------------------------------------------------------------
(* Claims about the analysis functions *)

SourceClasses(source_files) ==
    Flatten([i \in DOMAIN source_files |-> source_files[i].classes])

\* the rule as C1 states it: only a trailing suffix is stripped, Tests
\* before Test
StripTrailingSuffix(n) ==
    IF EndsWith(n, Tests) THEN SubSeq(n, 1, Len(n) - Len(Tests))
    ELSE IF EndsWith(n, Test) THEN SubSeq(n, 1, Len(n) - Len(Test))
    ELSE n

\* C1: the covered set holds each test type name without its trailing Tests
\* or Test suffix, so the source types reported missing are exactly those
\* whose name is not such a stripped name: Bar is not missing beside
\* BarTest or BarTests, and TestHelper covers only TestHelper.
C1_TrailingSuffixStripped ==
    pc = "return" =>
        LET covered == {StripTrailingSuffix(t) :
                           t \in Range(SourceClasses(arg.test_files))}
        IN  {ret[i].source_class : i \in DOMAIN ret} =
                {c \in Range(SourceClasses(arg.source_files)) : c \notin covered}

\* every type declaration of the source files, in discovery order, with the
\* path of its file
Declarations(source_files) ==
    Flatten([i \in DOMAIN source_files |->
                [j \in DOMAIN source_files[i].classes |->
                    <<source_files[i].path, source_files[i].classes[j]>>]])

\* C8: one entry per declaration of a source type whose name is not in the
\* covered set, none for a covered name, in file discovery order and, within
\* a file, declaration order; the suggested test file is the name followed
\* by Test.java; so the entries number the uncovered declarations, at most
\* total_source_classes.
C8_OneEntryPerUncoveredDeclaration ==
    pc = "return" =>
        LET covered == test_classes(arg.test_files)
            uncovered == SelectSeq(Declarations(arg.source_files),
                                   LAMBDA d : d[2] \notin covered)
        IN  /\ Len(ret) = Len(uncovered)
            /\ \A i \in DOMAIN uncovered :
                   /\ ret[i].source_file = uncovered[i][1]
                   /\ ret[i].source_class = uncovered[i][2]
                   /\ ret[i].suggested_test_file =
                          uncovered[i][2] \o <<"T", "e", "s", "t", ".", "j", "a", "v", "a">>
            /\ Len(ret) <= calculate_coverage_metrics(arg.source_files,
                                                      arg.test_files).total_source_classes

\* Helper is declared twice in the first file and once in the second and
\* has no test, Bar is covered by BarTest
C8_Witness ==
    /\ pc = "return"
    /\ Len(arg.source_files) = 2
    /\ arg.source_files[1].classes = <<Helper, Helper>>
    /\ arg.source_files[2].classes = <<Bar, Helper>>
    /\ Len(arg.test_files) = 1
    /\ arg.test_files[1].classes = <<BarTest>>
    /\ Len(ret) = 3
    /\ \A i \in DOMAIN ret : ret[i].source_class = Helper

\* C6: the four rules are evaluated independently and exactly the messages
\* whose condition holds are returned, in the order of the rules: file
\* coverage < 50, line ratio < 30, N > 0 missing tests (with N), test
\* methods < half the source methods.  File coverage 40, ratio 60, nothing
\* missing and 10 test methods for 10 source methods give the
\* low-file-coverage message alone.
C6_ExactlyTheRulesThatHold ==
    pc = "return" =>
        LET m == arg.coverage_metrics
            n == Len(arg.missing_tests)
            rules == <<LowFileCoverage, LowLineRatio, MissingTests(n), FewTestMethods>>
            holds == <<m.estimated_file_coverage < 5000,
                       m.test_to_source_ratio < 3000,
                       n > 0,
                       2 * m.total_test_methods < m.total_source_methods>>
        IN  /\ ret = SelectSeq(rules, LAMBDA r : \E i \in 1..4 : rules[i] = r /\ holds[i])
            /\ \A i \in 1..4 : holds[i] <=> rules[i] \in Range(ret)
            /\ (/\ m.estimated_file_coverage = 4000
                /\ m.test_to_source_ratio = 6000
                /\ n = 0
                /\ m.total_test_methods = 10
                /\ m.total_source_methods = 10) => ret = <<LowFileCoverage>>

\* the example of the claim, applied
C6_Witness ==
    /\ pc = "return"
    /\ arg.coverage_metrics.estimated_file_coverage = 4000
    /\ arg.coverage_metrics.test_to_source_ratio = 6000
    /\ arg.missing_tests = <<>>
    /\ arg.coverage_metrics.total_test_methods = 10
    /\ arg.coverage_metrics.total_source_methods = 10
    /\ Len(ret) = 1

\* h hundredths is num / den * 100 rounded to two decimals
IsPercentOf(h, num, den) ==
    LET err == 2 * (h * den - num * 10000)
    IN  err <= den /\ 0 - err <= den

\* C7: total_services is the number of records; the three totals are the
\* sums over all records; overall_file_coverage is total_test_files /
\* total_source_files * 100 from those totals (0 without source files);
\* unique_recommendations is the duplicate-free union of the records'
\* recommendations.  (4, 2) and (6, 3) give 10, 5 and 50.
C7_OverallStatistics ==
    pc = "return" =>
        LET names == DOMAIN arg
            sf == SumOver(names, [n \in names |->
                                     arg[n].coverage_metrics.total_source_files])
            tf == SumOver(names, [n \in names |->
                                     arg[n].coverage_metrics.total_test_files])
        IN  /\ ret.total_services = Cardinality(names)
            /\ ret.total_source_files = sf
            /\ ret.total_test_files = tf
            /\ ret.total_missing_tests =
                   SumOver(names, [n \in names |-> Len(arg[n].missing_tests)])
            /\ IF sf = 0 THEN ret.overall_file_coverage = 0
               ELSE IsPercentOf(ret.overall_file_coverage, tf, sf)
            /\ ret.unique_recommendations =
                   UNION {Range(arg[n].recommendations) : n \in names}
            /\ (/\ names = Range(Services)
                /\ arg[Services[1]].coverage_metrics.total_source_files = 4
                /\ arg[Services[1]].coverage_metrics.total_test_files = 2
                /\ arg[Services[2]].coverage_metrics.total_source_files = 6
                /\ arg[Services[2]].coverage_metrics.total_test_files = 3)
               => /\ ret.total_source_files = 10
                  /\ ret.total_test_files = 5
                  /\ ret.overall_file_coverage = 5000

\* the example of the claim, with a recommendation both services share
C7_Witness ==
    /\ pc = "return"
    /\ DOMAIN arg = Range(Services)
    /\ arg[Services[1]].coverage_metrics.total_source_files = 4
    /\ arg[Services[1]].coverage_metrics.total_test_files = 2
    /\ arg[Services[2]].coverage_metrics.total_source_files = 6
    /\ arg[Services[2]].coverage_metrics.total_test_files = 3
    /\ arg[Services[1]].recommendations = <<LowLineRatio, MissingTests(1)>>
    /\ arg[Services[2]].recommendations = <<LowLineRatio, MissingTests(2)>>
    /\ ret.overall_file_coverage = 5000
    /\ Cardinality(ret.unique_recommendations) = 3

=============================================================================
